---- MODULE Spec2Model ----
(***************************************************************************)
(* Spectrum retrieval engine of SDSS-Retriever: input normalisation, URL   *)
(* resolution with its two lru_cache memos, the on-disk cache, the async   *)
(* executor (AsyncSDSSRetriever) with its batch loop, and the blocking     *)
(* executor (SDSSRetriever).                                               *)
(*                                                                         *)
(* Optional values are sequences: None is <<>>, a URL is <<url record>>,   *)
(* a hash is <<"md5", url record>>, a spectrum is <<wavelength, flux,      *)
(* uncertainty>>.                                                          *)
(***************************************************************************)
EXTENDS Integers, Sequences, FiniteSets, TLC

\* ------------------------------------------------------------------ bounds
\* longest input sequence handed to a call
MaxLen == 3
\* plates 1..NPlates occur in inputs
NPlates == 3
\* top-level operations (calls, removes, clears) in one behaviour
MaxCalls == 2
\* capacity of each lru_cache memo (maxsize=128 in the source, scaled down)
LruMaxSize == 2
\* max_concurrent of the async retriever (50 by default, scaled down)
MaxConcurrent == 1

\* worker processes of the pool handed to SDSSRetriever
NWorkers == 2

\* ------------------------------------------------------- program constants
DataRelease == 17

None == <<>>

Selves == {"async", "standard"}

Plates == 1..NPlates
Fibers == {7}
Mjds == {5}

\* the (plate, fiber, mjd) triples the main specification uses
Keys == Plates \X Fibers \X Mjds

\* ---------------------------------------------------------------- helpers
Max2(a, b) == IF a >= b THEN a ELSE b

Repeat(x, n) == [i \in 1..n |-> x]

RemoveAt(s, i) == SubSeq(s, 1, i - 1) \o SubSeq(s, i + 1, Len(s))

RECURSIVE Pow10(_)
Pow10(n) == IF n <= 0 THEN 1 ELSE 10 * Pow10(n - 1)

\* ------------------------------------------------- input normalisation
\* A positional argument is [t |-> "int", v |-> n], [t |-> "seq", v |-> <<..>>],
\* [t |-> "dict", v |-> <<plate, fiber, mjd>>] (each an int or seq argument) or
\* [t |-> "frame", v |-> <<row, ...>>] with rows <<plate, fiber, mjd>>.
IntArg(n) == [t |-> "int", v |-> n]
SeqArg(s) == [t |-> "seq", v |-> s]
DictArg(p, f, m) == [t |-> "dict", v |-> <<p, f, m>>]
FrameArg(rows) == [t |-> "frame", v |-> rows]

Column(rows, c) == [i \in 1..Len(rows) |-> rows[i][c]]

\* isinstance(x, int): x = (x,)
AsTuple(a) == IF a.t = "int" THEN <<a.v>> ELSE a.v

FormatError(e) == [err |-> e, plate |-> <<>>, fiber |-> <<>>, mjd |-> <<>>, n |-> 0]

\* f = lambda v: v if (len(v) == n_max) else repeat(v[0], n_max)
Broadcast(v, n_max) == IF Len(v) = n_max THEN v ELSE Repeat(v[1], n_max)

\* a normaliser that takes the shortest input as the common length
format_three_min(p, f, m) ==
    LET plate == AsTuple(p)
        fiber == AsTuple(f)
        mjd   == AsTuple(m)
        n_min == IF Len(plate) <= Len(fiber) /\ Len(plate) <= Len(mjd) THEN Len(plate)
                 ELSE IF Len(fiber) <= Len(mjd) THEN Len(fiber) ELSE Len(mjd)
    IN  IF \A a \in {plate, fiber, mjd} : Len(a) \in {1, n_min}
        THEN [err |-> "", plate |-> Broadcast(plate, n_min),
              fiber |-> Broadcast(fiber, n_min),
              mjd |-> Broadcast(mjd, n_min), n |-> n_min]
        ELSE FormatError("AssertionError")

\* a normaliser without the length assertion
format_three_unchecked(p, f, m) ==
    LET plate == AsTuple(p)
        fiber == AsTuple(f)
        mjd   == AsTuple(m)
        n_max == Max2(Len(plate), Max2(Len(fiber), Len(mjd)))
    IN  [err |-> "", plate |-> Broadcast(plate, n_max),
         fiber |-> Broadcast(fiber, n_max),
         mjd |-> Broadcast(mjd, n_max), n |-> n_max]

\* the three-argument part of _format_args_into_iterables
format_three(p, f, m) ==
    LET plate == AsTuple(p)
        fiber == AsTuple(f)
        mjd   == AsTuple(m)
        n_max == Max2(Len(plate), Max2(Len(fiber), Len(mjd)))
    IN  IF \A a \in {plate, fiber, mjd} : Len(a) \in {1, n_max}
        THEN [err |-> "", plate |-> Broadcast(plate, n_max),
              fiber |-> Broadcast(fiber, n_max),
              mjd |-> Broadcast(mjd, n_max), n |-> n_max]
        ELSE FormatError("AssertionError")

\* AbstractRetriever._format_args_into_iterables(*args)
_format_args_into_iterables(args) ==
    IF Len(args) = 1
    THEN IF args[1].t = "dict"
         THEN format_three(args[1].v[1], args[1].v[2], args[1].v[3])
         ELSE IF args[1].t = "frame"
         THEN format_three(SeqArg(Column(args[1].v, 1)),
                           SeqArg(Column(args[1].v, 2)),
                           SeqArg(Column(args[1].v, 3)))
         ELSE FormatError("ValueError")
    ELSE IF Len(args) = 3
    THEN format_three(args[1], args[2], args[3])
    ELSE FormatError("ValueError")

\* zip(*loop[:3])
Zip3(loop) == [i \in 1..loop.n |-> <<loop.plate[i], loop.fiber[i], loop.mjd[i]>>]

\* itertools.batched(seq, b): contiguous chunks of b items, the last one shorter
Batched(s, b) ==
    [c \in 1..((Len(s) + b - 1) \div b) |->
        SubSeq(s, (c - 1) * b + 1, IF c * b <= Len(s) THEN c * b ELSE Len(s))]

\* ------------------------------------------------- survey metadata, payload
\* The survey catalogue: which keys SDSS.query_specobj has a row for.
InCatalog(key) == key[1] % 3 # 0

Run2dOf(key) == IF key[1] % 2 = 1 THEN "26" ELSE "v5_13_2"

\* res[0] of a non-empty answer
Row(key) == [plate |-> key[1], fiberID |-> key[2], mjd |-> key[3], run2d |-> Run2dOf(key)]

\* what one SDSS.query_specobj call may do: a row, zero rows, or an exception
LookupOutcomes(key) == IF InCatalog(key) THEN {"row", "exc"} ELSE {"zero", "exc"}

\* int(PARSE_BOSS_RUN2D.match(run2d).group('major')), 0 when there is no match
MajorOf(run2d) == IF run2d = "v5_13_2" THEN 5 ELSE IF run2d = "v6_0_4" THEN 6 ELSE 0

\* a URL builder that forgets the legacy run identifiers of line 139
UrlOfRow_no_legacy_set(row, dr) ==
    [dr |-> dr,
     redux_path |-> IF dr > 17 THEN "spectro/sdss/redux" ELSE "sdss/spectro/redux",
     run2d |-> row.run2d,
     spectra_path |-> IF dr > 15 THEN "spectra/full" ELSE "spectra",
     naming |-> IF dr > 17 /\ MajorOf(row.run2d) > 5 THEN "field" ELSE "plate",
     plate |-> row.plate, mjd |-> row.mjd, fiber |-> row.fiberID]

\* the URL built from a metadata row (lines 114-163)
UrlOfRow(row, dr) ==
    [dr |-> dr,
     redux_path |-> IF dr > 17 THEN "spectro/sdss/redux" ELSE "sdss/spectro/redux",
     run2d |-> row.run2d,
     spectra_path |-> IF dr > 15 /\ row.run2d \notin {"26", "103", "104"}
                      THEN "spectra/full" ELSE "spectra",
     naming |-> IF dr > 17 /\ MajorOf(row.run2d) > 5 THEN "field" ELSE "plate",
     plate |-> row.plate, mjd |-> row.mjd, fiber |-> row.fiberID]

\* the body of _get_url_to_spectrum for one answer of the metadata lookup
url_body(key, lk) == IF lk = "row" THEN <<UrlOfRow(Row(key), DataRelease)>> ELSE None

\* md5(url.encode()).hexdigest()
md5(url) == <<"md5", url>>

\* f"{hash_str}.h5" under _path_to_cache; str(None) is "None"
CacheFile(hash_str) == (IF hash_str = None THEN <<"None">> ELSE hash_str) \o <<".h5">>

\* the cache entry of a catalogued key
KeyFile(key) == CacheFile(md5(UrlOfRow(Row(key), DataRelease)))

\* hdul[1].data of the FITS file the archive serves at a URL
Payload(url) ==
    [loglam |-> <<url.plate, url.plate + 1>>,
     flux   |-> <<url.plate, 2 * url.plate>>,
     ivar   |-> <<4, 0>>]

NaN == <<0, 0>>

\* v ** -0.5 for the inverse variances the payloads carry, as a fraction
InvSqrt(v) == IF v = 1 THEN <<1, 1>> ELSE IF v = 4 THEN <<1, 2>> ELSE <<1, 3>>

\* a decoder without the where(ivar > 0, ivar, nan) guard
_translate_hdul_no_where(data) ==
    << [i \in 1..Len(data.loglam) |-> Pow10(data.loglam[i])],
       data.flux,
       [i \in 1..Len(data.ivar) |-> InvSqrt(data.ivar[i])] >>

\* AbstractRetriever._translate_hdul
_translate_hdul(data) ==
    << [i \in 1..Len(data.loglam) |-> Pow10(data.loglam[i])],
       data.flux,
       [i \in 1..Len(data.ivar) |->
            IF data.ivar[i] > 0 THEN InvSqrt(data.ivar[i]) ELSE NaN] >>

\* the h5 file written by _add_to_cache and the tuple read by _get_from_cache
H5Write(data) == [x |-> data[1], y |-> data[2], dy |-> data[3]]
H5Read(f) == <<f.x, f.y, f.dy>>

\* ------------------------------------------------------------ lru_cache
\* A memo is a sequence of [k |-> <<self, key>>, v |-> value], least recently
\* used first.
MemoHas(memo, k) == \E i \in 1..Len(memo) : memo[i].k = k
MemoIdx(memo, k) == CHOOSE i \in 1..Len(memo) : memo[i].k = k
MemoVal(memo, k) == memo[MemoIdx(memo, k)].v
\* a hit that does not refresh the entry's recency (first in, first out)
MemoHit_stale(memo, k) == memo
MemoHit(memo, k) == Append(RemoveAt(memo, MemoIdx(memo, k)), memo[MemoIdx(memo, k)])
\* a memo that does not keep None results
MemoMiss_skips_None(memo, k, v) ==
    IF v = None THEN memo
    ELSE Append(IF Len(memo) >= LruMaxSize THEN Tail(memo) ELSE memo, [k |-> k, v |-> v])

MemoMiss(memo, k, v) ==
    Append(IF Len(memo) >= LruMaxSize THEN Tail(memo) ELSE memo, [k |-> k, v |-> v])

\* ------------------------------------------------------------------ state
VARIABLES
    cache,      \* files of the .cache directory: file name -> h5 content
    cache_dir,  \* TRUE when the .cache directory exists
    url_memo,   \* lru_cache of _get_url_to_spectrum (shared by all instances)
    hash_memo,  \* lru_cache of _create_cache_hash (shared by all instances)
    call,       \* the top-level call in progress
    tasks,      \* the fetch tasks of the current pass, by input position
    order,      \* positions of the current pass's tasks in completion order
    gathered,   \* None, or <<list>>: what gather(*tasks) has just returned
    ncalls,     \* top-level operations started so far
    fetched     \* <<self, key, file>>: a finished call fetched key from the
                \* network and created that cache file, not removed since

vars == <<cache, cache_dir, url_memo, hash_memo, call, tasks, order, gathered,
          ncalls, fetched>>

\* ------------------------------------------------- resolution and the cache
\* a resolution that does not memoize the None of a failed lookup
_get_url_to_spectrum_forgets_errors(um, self, key, lk) ==
    IF MemoHas(um, <<self, key>>)
    THEN [v |-> MemoVal(um, <<self, key>>), um |-> MemoHit(um, <<self, key>>), n |-> 0]
    ELSE IF lk = "exc" THEN [v |-> None, um |-> um, n |-> 1]
    ELSE [v |-> url_body(key, lk), um |-> MemoMiss(um, <<self, key>>, url_body(key, lk)),
          n |-> 1]

\* AbstractRetriever._get_url_to_spectrum behind its lru_cache; lk is what the
\* metadata lookup does if it is called.  n counts the lookups made.
_get_url_to_spectrum(um, self, key, lk) ==
    IF MemoHas(um, <<self, key>>)
    THEN [v |-> MemoVal(um, <<self, key>>), um |-> MemoHit(um, <<self, key>>), n |-> 0]
    ELSE [v |-> url_body(key, lk), um |-> MemoMiss(um, <<self, key>>, url_body(key, lk)),
          n |-> 1]

\* AbstractRetriever._create_cache_hash behind its lru_cache
_create_cache_hash(um, hm, self, key, lk) ==
    IF MemoHas(hm, <<self, key>>)
    THEN [v |-> MemoVal(hm, <<self, key>>), um |-> um,
          hm |-> MemoHit(hm, <<self, key>>), n |-> 0]
    ELSE LET r == _get_url_to_spectrum(um, self, key, lk)
             h == IF r.v = None THEN None ELSE md5(r.v[1])
         IN  [v |-> h, um |-> r.um, hm |-> MemoMiss(hm, <<self, key>>, h), n |-> r.n]

\* a cache lookup that never finds the file
_get_from_cache_misses(files, um, hm, self, key, lk) ==
    LET r == _create_cache_hash(um, hm, self, key, lk)
    IN  [v |-> None, um |-> r.um, hm |-> r.hm, n |-> r.n]

\* AbstractRetriever._get_from_cache: v is the tuple read, or None
_get_from_cache(files, um, hm, self, key, lk) ==
    LET r == _create_cache_hash(um, hm, self, key, lk)
        cache_file == CacheFile(r.v)
    IN  [v |-> IF cache_file \in DOMAIN files THEN H5Read(files[cache_file]) ELSE None,
         um |-> r.um, hm |-> r.hm, n |-> r.n]

\* the file system after h5py.File(cache_file, 'w') and the three create_dataset
WriteFile(files, cache_file, data) ==
    [f \in DOMAIN files \cup {cache_file} |->
        IF f = cache_file THEN H5Write(data) ELSE files[f]]

\* a put that writes the file whether or not it exists
_add_to_cache_clobbers(files, um, hm, self, key, data, lk) ==
    LET r == _create_cache_hash(um, hm, self, key, lk)
    IN  [files |-> WriteFile(files, CacheFile(r.v), data),
         um |-> r.um, hm |-> r.hm, n |-> r.n]

\* AbstractRetriever._add_to_cache: files is the directory content afterwards
_add_to_cache(files, um, hm, self, key, data, lk) ==
    LET r == _create_cache_hash(um, hm, self, key, lk)
        cache_file == CacheFile(r.v)
    IN  [files |-> IF cache_file \in DOMAIN files THEN files
                   ELSE WriteFile(files, cache_file, data),
         um |-> r.um, hm |-> r.hm, n |-> r.n]

\* ------------------------------------------------------------------ tasks
\* key was fetched and stored by an earlier call of this retriever
FetchedBefore(self, key) == \E e \in fetched : e[1] = self /\ e[2] = key

\* ... and _create_cache_hash still memoizes the hash it was stored under
StillMemoized(self, key) ==
    /\ MemoHas(hash_memo, <<self, key>>)
    /\ <<self, key, CacheFile(MemoVal(hash_memo, <<self, key>>))>> \in fetched

\* the file a put has created, None when it has created none
Created(before, after) ==
    IF DOMAIN after = DOMAIN before THEN None
    ELSE CHOOSE f \in DOMAIN after : f \notin DOMAIN before

\* ------------------------------------------------------- fetch_spectrum
\* the counter of the Semaphore the semaphore property hands out: every
\* access constructs a new Semaphore(self.max_concurrent)
semaphore == MaxConcurrent

\* AsyncSDSSRetriever.fetch_spectrum from its start to the awaited
\* session.get (lines 47-61), or to its return when the cache has the entry
\* or the URL is None.  n counts the metadata lookups made.
fetch_spectrum_begin(files, dir, um, hm, self, key, lk) ==
    LET Out(c, u) ==
            LET r == [st |-> "done", res |-> None, url |-> None, gets |-> 0,
                      n |-> c.n, net |-> "none", wrote |-> None, files |-> files,
                      dir |-> dir, um |-> c.um, hm |-> c.hm]
            IN  IF c.v # None THEN [r EXCEPT !.res = c.v]
                ELSE IF u.v = None THEN [r EXCEPT !.n = c.n + u.n, !.um = u.um]
                ELSE [r EXCEPT !.st = IF semaphore > 0 THEN "fetching" ELSE "blocked",
                               !.url = u.v, !.gets = IF semaphore > 0 THEN 1 ELSE 0,
                               !.n = c.n + u.n, !.um = u.um]
        Resolve(c) == Out(c, _get_url_to_spectrum(c.um, self, key, lk))
    IN  Resolve(_get_from_cache(files, um, hm, self, key, lk))

\* AsyncSDSSRetriever.fetch_spectrum from the response on (lines 61-74):
\* every exception, the one of _add_to_cache included, is caught and turned
\* into None
fetch_spectrum_end(files, dir, um, hm, self, key, url, net, lk) ==
    LET Out(data, a) ==
            LET r == [st |-> "done", res |-> None, url |-> <<url>>, gets |-> 1,
                      n |-> 0, net |-> "fail", wrote |-> None, files |-> files,
                      dir |-> dir, um |-> um, hm |-> hm]
            IN  IF net = "ok" \/ (net = "ioerr" /\ a.files = files)
                THEN [r EXCEPT !.res = data, !.net = "ok", !.n = a.n,
                               !.wrote = Created(files, a.files), !.files = a.files,
                               !.dir = TRUE, !.um = a.um, !.hm = a.hm]
                ELSE IF net = "ioerr"
                THEN [r EXCEPT !.net = "ioerr", !.n = a.n, !.dir = TRUE,
                               !.um = a.um, !.hm = a.hm]
                ELSE r
        Put(data) == Out(data, _add_to_cache(files, um, hm, self, key, data, lk))
    IN  Put(_translate_hdul(Payload(url)))

\* AsyncSDSSRetriever.fetch_spectrum run from start to return with no other
\* task in between
async_fetch_spectrum(files, dir, um, hm, self, key, lk, net) ==
    LET Rest(b) ==
            LET End(e) == [e EXCEPT !.n = b.n + e.n]
            IN  IF b.st = "fetching"
                THEN End(fetch_spectrum_end(b.files, b.dir, b.um, b.hm, self, key,
                                            b.url[1], net, lk))
                ELSE b
    IN  Rest(fetch_spectrum_begin(files, dir, um, hm, self, key, lk))

\* SDSSRetriever.fetch_spectrum (lines 26-63).  lk1 is what the lookup of
\* _create_cache_hash does if the memo misses; SDSS.get_spectra makes its own
\* metadata lookup (lk2) and, for a row, the GET and fits.open (net) inside
\* the try; _translate_hdul and _add_to_cache run after it, so what they
\* raise leaves fetch_spectrum (st = "raised")
std_fetch_spectrum(files, dir, um, hm, self, key, lk1, lk2, net) ==
    LET Out(c, url, data, a) ==
            LET r == [st |-> "done", res |-> None, url |-> None, gets |-> 0,
                      n |-> c.n, net |-> "none", wrote |-> None, files |-> files,
                      dir |-> dir, um |-> c.um, hm |-> c.hm]
                g == [r EXCEPT !.url = <<url>>, !.gets = 1, !.n = c.n + 1,
                               !.net = "fail"]
            IN  IF c.v # None THEN [r EXCEPT !.res = c.v]
                ELSE IF lk2 # "row" THEN [r EXCEPT !.n = c.n + 1]
                ELSE IF net = "ok" \/ (net = "ioerr" /\ a.files = files)
                THEN [g EXCEPT !.res = data, !.net = "ok", !.n = c.n + 1 + a.n,
                               !.wrote = Created(files, a.files), !.files = a.files,
                               !.dir = TRUE, !.um = a.um, !.hm = a.hm]
                ELSE IF net = "translateerr" THEN [g EXCEPT !.st = "raised"]
                ELSE IF net = "ioerr"
                THEN [g EXCEPT !.st = "raised", !.net = "ioerr",
                               !.n = c.n + 1 + a.n, !.dir = TRUE,
                               !.um = a.um, !.hm = a.hm]
                ELSE g
        Put(c, url, data) ==
            Out(c, url, data, _add_to_cache(files, c.um, c.hm, self, key, data, lk1))
        Get(c, url) == Put(c, url, _translate_hdul(Payload(url)))
    IN  Get(_get_from_cache(files, um, hm, self, key, lk1),
            UrlOfRow(Row(key), DataRelease))

NewTask(key) ==
    [key |-> key, st |-> "new", url |-> None, res |-> None, gets |-> 0,
     lookups |-> 0, zero |-> FALSE, net |-> "none", wrote |-> None,
     pre |-> FALSE, memo |-> FALSE]

\* tasks = list(map(f, zip(*loop[:3]))) of get_spectrum, after its own
\* _format_args_into_iterables(*args)
NewTasks(args) ==
    LET loop == _format_args_into_iterables(args)
    IN  [i \in 1..loop.n |-> NewTask(Zip3(loop)[i])]

\* a gather that returns as soon as one task has finished
AnyDone(ts) == \E i \in 1..Len(ts) : ts[i].st = "done"

\* a gather that takes a raised task for a finished one (return_exceptions)
AllFinished(ts) == \A i \in 1..Len(ts) : ts[i].st \in {"done", "raised"}

AllDone(ts) == \A i \in 1..Len(ts) : ts[i].st = "done"

\* a gather that hands the results back in completion order
GatherByCompletion(ts, ord) == [i \in 1..Len(ts) |-> ts[ord[i]].res]

\* a gather in which one failed fetch spoils the whole pass
GatherAbortsOnFailure(ts, ord) ==
    [i \in 1..Len(ts) |->
        IF \E j \in 1..Len(ts) : ts[j].net = "fail" THEN None ELSE ts[i].res]

\* what gather(*tasks) returns: the results by input position
GatherResults(ts, ord) == [i \in 1..Len(ts) |-> ts[i].res]

\* what the GET, the FITS reader, _translate_hdul and the h5 write may do:
\* "decodeerr" is an exception of fits.open, "translateerr" one of
\* _translate_hdul (no HDU 1, no loglam column), "ioerr" an OSError of
\* h5py.File(cache_file, 'w')
NetOutcomes == {"ok", "non200", "timeout", "connerr", "decodeerr", "translateerr", "ioerr"}

Idle == [self |-> "async", pc |-> "idle", input |-> <<>>, args |-> <<>>,
         batch_size |-> None,
         loop |-> FormatError(""), chunks |-> <<>>, ci |-> 0, out |-> <<>>,
         ok |-> {}, ret |-> <<>>]

Init ==
    /\ cache = [f \in {} |-> None]
    /\ cache_dir = FALSE
    /\ url_memo = <<>>
    /\ hash_memo = <<>>
    /\ call = Idle
    /\ tasks = <<>>
    /\ order = <<>>
    /\ gathered = None
    /\ ncalls = 0
    /\ fetched = {}

\* ---------------------------------------------------------------- inputs
SeqsUpTo(S, n) == UNION {[1..m -> S] : m \in 0..n}

Increasing(s) == \A i \in 1..(Len(s) - 1) : s[i] < s[i + 1]

Decreasing(s) == \A i \in 1..(Len(s) - 1) : s[i] > s[i + 1]

\* the argument tuples the main specification passes to a call: plate lists
\* in increasing order, and the decreasing ones of length MaxLen (their last
\* chunk ends with a catalogued plate), with a scalar fiber and mjd, and plate
\* lists of length 1 (broadcast) and MaxLen (rejected) with a fiber list of
\* length 2
CallArgs ==
    {<<SeqArg(p), IntArg(f), IntArg(m)>> :
        p \in {q \in SeqsUpTo(Plates, MaxLen) :
                  /\ Len(q) >= 1
                  /\ Increasing(q) \/ (Len(q) = MaxLen /\ Decreasing(q))},
        f \in Fibers, m \in Mjds}
    \cup
    {<<SeqArg(p), SeqArg(<<f, f>>), IntArg(m)>> :
        p \in {q \in SeqsUpTo(Plates, MaxLen) : Len(q) \in {1, MaxLen} /\ Increasing(q)},
        f \in Fibers, m \in Mjds}

\* the batch_size values of the retrievers
BatchSizes == {None, <<2>>}

\* ------------------------------------------------- AsyncSDSSRetriever.__call__
\* zip(batched(loop[0], b), batched(loop[1], b), batched(loop[2], b))
Chunks(loop, b) ==
    [c \in 1..Len(Batched(loop.plate, b)) |->
        <<SeqArg(Batched(loop.plate, b)[c]), SeqArg(Batched(loop.fiber, b)[c]),
          SeqArg(Batched(loop.mjd, b)[c])>>]

NeedsBatches(loop, bs) == bs # None /\ loop.n > bs[1]

\* A call starts: self(*args).  Both __call__ methods run
\* _format_args_into_iterables first; the async one then either enters the
\* chunk loop (its first chunk's pass is set up) or runs get_spectrum(*args);
\* the blocking one sets up map(fetch_spectrum, zip(...)).
CallWith(self, args, bs) ==
    /\ call.pc = "idle"
    /\ ncalls < MaxCalls
    /\ ncalls' = ncalls + 1
    /\ order' = <<>>
    /\ gathered' = None
    /\ UNCHANGED <<cache, cache_dir, url_memo, hash_memo, fetched>>
    /\ LET loop == _format_args_into_iterables(args)
           base == [Idle EXCEPT !.self = self, !.input = args, !.args = args,
                                !.batch_size = bs, !.loop = loop]
       IN  IF Len(args) < 1 \/ loop.err # ""
           THEN /\ call' = [base EXCEPT !.pc = "raised"]
                /\ tasks' = <<>>
           ELSE IF self = "standard"
           THEN /\ call' = [base EXCEPT !.pc = "map"]
                /\ tasks' = NewTasks(args)
           ELSE IF NeedsBatches(loop, bs)
           THEN /\ call' = [base EXCEPT !.pc = "pass",
                                        !.chunks = Chunks(loop, bs[1]),
                                        !.ci = 1,
                                        !.args = Chunks(loop, bs[1])[1]]
                /\ tasks' = NewTasks(Chunks(loop, bs[1])[1])
           ELSE /\ call' = [base EXCEPT !.pc = "final"]
                /\ tasks' = NewTasks(args)

Call ==
    /\ call.pc = "idle"
    /\ \E self \in Selves, args \in CallArgs, bs \in BatchSizes :
            /\ (self = "standard" => bs = None)
            /\ CallWith(self, args, bs)

\* ------------------------------------------ AsyncSDSSRetriever.fetch_spectrum
\* A task runs from its start to the session.get it awaits (lines 47-61), or
\* to its return when the cache has the entry or the URL is None.
TaskStart(i, lk) ==
    /\ call.pc \in {"pass", "final"}
    /\ gathered = None
    /\ i \in 1..Len(tasks)
    /\ tasks[i].st = "new"
    /\ LET t == tasks[i]
           Started(r) ==
               /\ tasks' = [tasks EXCEPT ![i] =
                       [t EXCEPT !.pre = FetchedBefore(call.self, t.key),
                                 !.memo = StillMemoized(call.self, t.key),
                                 !.zero = (r.n > 0 /\ lk = "zero"),
                                 !.st = r.st, !.res = r.res, !.url = r.url,
                                 !.gets = r.gets, !.lookups = r.n]]
               /\ order' = IF r.st = "done" THEN Append(order, i) ELSE order
               /\ url_memo' = r.um
               /\ hash_memo' = r.hm
       IN  Started(fetch_spectrum_begin(cache, cache_dir, url_memo, hash_memo,
                                        call.self, t.key, lk))
    /\ UNCHANGED <<cache, cache_dir, call, gathered, ncalls, fetched>>

\* The awaited GET settles (lines 61-74): net is what the network and the
\* FITS decoder do; on "ok" the spectrum is translated, written through to
\* the cache and returned, otherwise the task returns None.
TaskSettle(i, net, lk) ==
    /\ call.pc \in {"pass", "final"}
    /\ i \in 1..Len(tasks)
    /\ tasks[i].st = "fetching"
    /\ order' = Append(order, i)
    /\ LET t == tasks[i]
           Settled(r) ==
               /\ tasks' = [tasks EXCEPT ![i] =
                       [t EXCEPT !.st = r.st, !.res = r.res, !.net = r.net,
                                 !.wrote = r.wrote, !.lookups = t.lookups + r.n]]
               /\ cache' = r.files
               /\ cache_dir' = r.dir
               /\ url_memo' = r.um
               /\ hash_memo' = r.hm
       IN  Settled(fetch_spectrum_end(cache, cache_dir, url_memo, hash_memo,
                                      call.self, t.key, t.url[1], net, lk))
    /\ UNCHANGED <<call, gathered, ncalls, fetched>>

OkPairs(self, ts) ==
    {<<self, ts[i].key, ts[i].wrote>> : i \in {j \in 1..Len(ts) : ts[j].wrote # None}}

\* --------------------------------------------- AsyncSDSSRetriever.get_spectrum
\* await gather(*tasks): every task of the pass has returned
Gather ==
    /\ call.pc \in {"pass", "final"}
    /\ gathered = None
    /\ AllDone(tasks)
    /\ gathered' = <<GatherResults(tasks, order)>>
    /\ call' = [call EXCEPT !.ok = @ \cup OkPairs(call.self, tasks)]
    /\ UNCHANGED <<cache, cache_dir, url_memo, hash_memo, tasks, order, ncalls, fetched>>

\* get_spectrum has returned to __call__ (lines 142-145): inside the chunk
\* loop the list extends out and the next chunk's pass starts; after the last
\* chunk, args is still bound to that chunk and get_spectrum(*args) runs;
\* the list of that final pass is what __call__ returns.
Continue ==
    /\ call.pc \in {"pass", "final"}
    /\ gathered # None
    /\ gathered' = None
    /\ UNCHANGED <<cache, cache_dir, url_memo, hash_memo, ncalls>>
    /\ IF call.pc = "final"
       THEN /\ call' = [call EXCEPT !.pc = "done", !.ret = gathered[1]]
            /\ fetched' = fetched \cup call.ok
            /\ UNCHANGED <<tasks, order>>
       ELSE /\ fetched' = fetched
            /\ order' = <<>>
            /\ IF call.ci < Len(call.chunks)
               THEN /\ call' = [call EXCEPT !.out = @ \o gathered[1],
                                            !.ci = @ + 1,
                                            !.args = call.chunks[call.ci + 1]]
                    /\ tasks' = NewTasks(call.chunks[call.ci + 1])
               ELSE /\ call' = [call EXCEPT !.out = @ \o gathered[1],
                                            !.pc = "final"]
                    /\ tasks' = NewTasks(call.args)

\* ---------------------------------------------- SDSSRetriever.fetch_spectrum
\* The position map(func, _zip) hands to fetch_spectrum next
NextNew(ts) == CHOOSE i \in 1..Len(ts) :
                   ts[i].st = "new" /\ \A j \in 1..(i - 1) : ts[j].st = "done"

\* One blocking fetch; an exception leaving fetch_spectrum leaves map(),
\* list() and __call__ as well
StdFetch(lk1, lk2, net) ==
    /\ call.pc = "map"
    /\ \E i \in 1..Len(tasks) : tasks[i].st = "new"
    /\ LET i == NextNew(tasks)
           t == tasks[i]
           Fetched(c, r) ==
               /\ tasks' = [tasks EXCEPT ![i] =
                       [t EXCEPT !.pre = FetchedBefore(call.self, t.key),
                                 !.memo = StillMemoized(call.self, t.key),
                                 !.zero = \/ c.n > 0 /\ lk1 = "zero"
                                          \/ c.v = None /\ lk2 = "zero",
                                 !.st = r.st, !.res = r.res, !.url = r.url,
                                 !.gets = r.gets, !.net = r.net, !.wrote = r.wrote,
                                 !.lookups = r.n]]
               /\ cache' = r.files
               /\ cache_dir' = r.dir
               /\ url_memo' = r.um
               /\ hash_memo' = r.hm
               /\ call' = IF r.st = "raised" THEN [call EXCEPT !.pc = "aborted"]
                          ELSE call
       IN  /\ lk1 \in LookupOutcomes(t.key)
           /\ lk2 \in LookupOutcomes(t.key)
           /\ order' = Append(order, i)
           /\ Fetched(_get_from_cache(cache, url_memo, hash_memo, call.self, t.key, lk1),
                      std_fetch_spectrum(cache, cache_dir, url_memo, hash_memo,
                                         call.self, t.key, lk1, lk2, net))
    /\ UNCHANGED <<gathered, ncalls, fetched>>

\* SDSSRetriever.__call__: list(self.get_spectrum(*args)) is complete
StdReturn ==
    /\ call.pc = "map"
    /\ AllDone(tasks)
    /\ call' = [call EXCEPT !.pc = "done", !.ret = [i \in 1..Len(tasks) |-> tasks[i].res],
                            !.ok = OkPairs(call.self, tasks)]
    /\ fetched' = fetched \cup OkPairs(call.self, tasks)
    /\ UNCHANGED <<cache, cache_dir, url_memo, hash_memo, tasks, order, gathered, ncalls>>

\* --------------------------------------------------- explicit maintenance
\* AbstractRetriever._remove_from_cache: the assert fails when the file is
\* missing (the memos have been consulted by then)
_remove_from_cache(self, key, lk) ==
    /\ call.pc = "idle"
    /\ ncalls < MaxCalls
    /\ ncalls' = ncalls + 1
    /\ lk \in LookupOutcomes(key)
    /\ LET r == _create_cache_hash(url_memo, hash_memo, self, key, lk)
           cache_file == CacheFile(r.v)
       IN  /\ url_memo' = r.um
           /\ hash_memo' = r.hm
           /\ IF cache_file \in DOMAIN cache
              THEN /\ cache' = [f \in DOMAIN cache \ {cache_file} |-> cache[f]]
                   /\ fetched' = {}
              ELSE UNCHANGED <<cache, fetched>>
    /\ UNCHANGED <<cache_dir, call, tasks, order, gathered>>

\* AbstractRetriever._clear_cache
_clear_cache ==
    /\ call.pc = "idle"
    /\ ncalls < MaxCalls
    /\ ncalls' = ncalls + 1
    /\ cache' = [f \in {} |-> None]
    /\ fetched' = {}
    /\ UNCHANGED <<cache_dir, url_memo, hash_memo, call, tasks, order, gathered>>

\* The caller takes the returned list (or the exception) and the call is over
Finish ==
    /\ call.pc \in {"done", "raised", "aborted"}
    /\ call' = Idle
    /\ tasks' = <<>>
    /\ order' = <<>>
    /\ UNCHANGED <<cache, cache_dir, url_memo, hash_memo, gathered, ncalls, fetched>>

\* ------------------------------------------------------------ specification
Start ==
    /\ call.pc \in {"pass", "final"}
    /\ \E i \in 1..MaxLen, lk \in {"row", "zero", "exc"} :
            /\ i \in 1..Len(tasks)
            /\ lk \in LookupOutcomes(tasks[i].key)
            /\ TaskStart(i, lk)

Settle ==
    /\ call.pc \in {"pass", "final"}
    /\ \E i \in 1..MaxLen, net \in NetOutcomes, lk \in {"row", "zero", "exc"} :
            /\ i \in 1..Len(tasks)
            /\ tasks[i].st = "fetching"
            /\ lk \in LookupOutcomes(tasks[i].key)
            /\ TaskSettle(i, net, lk)

Fetch ==
    /\ call.pc = "map"
    /\ \E lk1 \in {"row", "zero", "exc"}, lk2 \in {"row", "zero", "exc"},
            net \in NetOutcomes : StdFetch(lk1, lk2, net)

Remove ==
    /\ call.pc = "idle"
    /\ \E self \in Selves, key \in Keys, lk \in {"row", "zero", "exc"} :
            _remove_from_cache(self, key, lk)

Next ==
    \/ Call
    \/ Start
    \/ Settle
    \/ Gather
    \/ Continue
    \/ Fetch
    \/ StdReturn
    \/ Finish
    \/ Remove
    \/ _clear_cache

Spec == Init /\ [][Next]_vars

\* ------------------------------------ the same program on a deterministic layer
\* A deterministic metadata and fetch layer: the catalogue answers without
\* exceptions, and the archive serves every URL except those of plate 2,
\* whose requests time out.
DetLookup(key) == IF InCatalog(key) THEN "row" ELSE "zero"
DetNet(url) == IF url.plate = 2 THEN "timeout" ELSE "ok"

DetStart ==
    /\ call.pc \in {"pass", "final"}
    /\ \E i \in 1..MaxLen :
            /\ i \in 1..Len(tasks)
            /\ TaskStart(i, DetLookup(tasks[i].key))

DetSettle ==
    /\ call.pc \in {"pass", "final"}
    /\ \E i \in 1..MaxLen :
            /\ i \in 1..Len(tasks)
            /\ tasks[i].st = "fetching"
            /\ TaskSettle(i, DetNet(tasks[i].url[1]), DetLookup(tasks[i].key))

DetFetch ==
    /\ call.pc = "map"
    /\ \E lk \in {"row", "zero"}, net \in NetOutcomes :
            /\ \E i \in 1..Len(tasks) : tasks[i].st = "new"
            /\ lk = DetLookup(tasks[NextNew(tasks)].key)
            /\ net = DetNet(UrlOfRow(Row(tasks[NextNew(tasks)].key), DataRelease))
            /\ StdFetch(lk, lk, net)

DetRemove ==
    /\ call.pc = "idle"
    /\ \E self \in Selves, key \in Keys : _remove_from_cache(self, key, DetLookup(key))

NextDet ==
    \/ Call
    \/ DetStart
    \/ DetSettle
    \/ Gather
    \/ Continue
    \/ DetFetch
    \/ StdReturn
    \/ Finish
    \/ DetRemove
    \/ _clear_cache

SpecDet == Init /\ [][NextDet]_vars

\* ------------------------------------------- the input normaliser on its own
FormatPlates == {1, 2}
FormatFibers == {7, 8}
FormatMjds == {5}

ArgsOver(S) == {IntArg(n) : n \in S} \cup {SeqArg(q) : q \in SeqsUpTo(S, MaxLen)}

\* scalar or list arguments, the same in a dict, and DataFrames
FormatArgs ==
    {<<p, f, m>> : p \in ArgsOver(FormatPlates), f \in ArgsOver(FormatFibers),
                    m \in ArgsOver(FormatMjds)}
    \cup
    {<<DictArg(p, f, IntArg(5))>> : p \in ArgsOver(FormatPlates), f \in ArgsOver(FormatFibers)}
    \cup
    {<<FrameArg(rows)>> :
        rows \in SeqsUpTo({<<1, 7, 5>>, <<2, 8, 6>>}, MaxLen)}
    \cup
    {<<IntArg(1)>>, <<IntArg(1), IntArg(7)>>}

FormatCall ==
    /\ call.pc = "idle"
    /\ \E self \in Selves, args \in FormatArgs, bs \in BatchSizes :
            /\ (self = "standard" => bs = None)
            /\ CallWith(self, args, bs)

NextFormat == FormatCall

SpecFormat == Init /\ [][NextFormat]_vars

\* ------------------------------------------------------- URL construction
\* the data releases a retriever is constructed with, on both sides of every
\* threshold of the URL construction
DataReleases == {7, 8, 15, 16, 17, 18}

\* the run identifiers a metadata row carries
Run2ds == {"26", "103", "104", "v5_13_2", "v6_0_4"}

\* the URL AsyncSDSSRetriever._fetch_spectrum of _sdss_retriever.py builds:
\* _url has no spectra path segment and the run identifier is hard-coded
legacy_url(plate, fiber, mjd, data_release) ==
    [dr |-> data_release,
     redux_path |-> "sdss/spectro/redux",
     run2d |-> IF data_release <= 7 THEN "26" ELSE "v5_13_2",
     spectra_path |-> "",
     naming |-> "plate",
     plate |-> plate, mjd |-> mjd, fiber |-> fiber]

\* _get_url_to_spectrum of a retriever constructed with data_release = dr,
\* for a key whose metadata row carries run2d
ResolveUrl ==
    /\ call.pc = "idle"
    /\ ncalls < MaxCalls + 1
    /\ ncalls' = ncalls + 1
    /\ \E key \in Keys, dr \in DataReleases, run2d \in Run2ds :
          LET row == [Row(key) EXCEPT !.run2d = run2d]
          IN  tasks' = <<[impl |-> "retriever", dr |-> dr, row |-> row,
                          url |-> UrlOfRow(row, dr)]>>
    /\ UNCHANGED <<cache, cache_dir, url_memo, hash_memo, call, order, gathered, fetched>>

\* the URL of _sdss_retriever.py for the same key and data release; the
\* metadata row is the one the catalogue holds, which this code never asks for
LegacyUrl ==
    /\ call.pc = "idle"
    /\ ncalls < MaxCalls + 1
    /\ ncalls' = ncalls + 1
    /\ \E key \in Keys, dr \in DataReleases, run2d \in Run2ds :
          LET row == [Row(key) EXCEPT !.run2d = run2d]
          IN  tasks' = <<[impl |-> "legacy", dr |-> dr, row |-> row,
                          url |-> legacy_url(key[1], key[2], key[3], dr)]>>
    /\ UNCHANGED <<cache, cache_dir, url_memo, hash_memo, call, order, gathered, fetched>>

NextUrl == ResolveUrl \/ LegacyUrl

SpecUrl == Init /\ [][NextUrl]_vars

\* ------------------------------------------------------------- decoding
\* the inverse variances a table may carry: negative, zero and positive
Ivars == {-1, 0, 1, 4, 9}

\* hdul[1].data of a FITS file with n samples: the three columns of one table
\* have one length
Tables ==
    {[loglam |-> [i \in 1..Len(iv) |-> i], flux |-> [i \in 1..Len(iv) |-> 2 * i],
      ivar |-> iv] : iv \in SeqsUpTo(Ivars, MaxLen)}

\* _translate_hdul applied to a downloaded table
Decode ==
    /\ call.pc = "idle"
    /\ \E data \in Tables :
          tasks' = <<[data |-> data, res |-> _translate_hdul(data)]>>
    /\ UNCHANGED <<cache, cache_dir, url_memo, hash_memo, call, order, gathered,
                   ncalls, fetched>>

NextDecode == Decode

SpecDecode == Init /\ [][NextDecode]_vars

\* ------------------------------------ SDSSRetriever with a pool of workers
\* get_spectrum hands the keys to pool.imap / pool.map (standard.py 72-77) and
\* each worker runs fetch_spectrum, line by line, on the shared .cache
\* directory.  tasks[w] is the fetch worker w runs: pc is the line it is at.
\* The memos of a worker process are its own copies and the metadata lookups
\* of the workers answer with the row; the parent's memos do not change.
CatalogKeys == {k \in Keys : InCatalog(k)}

\* an h5 file is complete when the three datasets are in it
Complete(f) == DOMAIN f = {"x", "y", "dy"}

\* the file after create_dataset(name, data=...)
WithDataset(f, name, v) == [n \in DOMAIN f \cup {name} |-> IF n = name THEN v ELSE f[n]]

\* the file just created or truncated by h5py.File(cache_file, 'w')
EmptyFile == [n \in {} |-> None]

WorkerFile(t) == KeyFile(t.key)

\* worker w holds the file of its key open for writing
Writing(t) == t.pc \in {"x", "y", "dy"}

PoolCall ==
    /\ call.pc = "idle"
    /\ tasks = <<>>
    /\ ncalls < MaxCalls
    /\ ncalls' = ncalls + 1
    /\ \E ks \in [1..NWorkers -> CatalogKeys] :
          tasks' = [w \in 1..NWorkers |->
                       [key |-> ks[w], pc |-> "cache", st |-> "run", res |-> None]]
    /\ call' = [Idle EXCEPT !.self = "standard", !.pc = "pool"]
    /\ UNCHANGED <<cache, cache_dir, url_memo, hash_memo, order, gathered, fetched>>

\* _get_from_cache (abstract_retriever.py 179-191): no file -> None; else the
\* three datasets are read, and a dataset that is not there raises KeyError,
\* which nothing in fetch_spectrum catches
PoolCacheLookup(w) ==
    /\ call.pc = "pool"
    /\ w \in 1..Len(tasks)
    /\ tasks[w].st = "run" /\ tasks[w].pc = "cache"
    /\ LET t == tasks[w]
           f == WorkerFile(t)
       IN  tasks' = [tasks EXCEPT ![w] =
               IF f \notin DOMAIN cache THEN [t EXCEPT !.pc = "get"]
               ELSE IF Complete(cache[f])
               THEN [t EXCEPT !.pc = "end", !.st = "done", !.res = H5Read(cache[f])]
               ELSE [t EXCEPT !.pc = "end", !.st = "raised"]]
    /\ UNCHANGED <<cache, cache_dir, url_memo, hash_memo, call, order, gathered,
                   ncalls, fetched>>

\* SDSS.get_spectra and _translate_hdul (standard.py 45-59)
PoolGet(w, net) ==
    /\ call.pc = "pool"
    /\ w \in 1..Len(tasks)
    /\ tasks[w].st = "run" /\ tasks[w].pc = "get"
    /\ net \in {"ok", "timeout"}
    /\ LET t == tasks[w]
       IN  tasks' = [tasks EXCEPT ![w] =
               IF net = "ok"
               THEN [t EXCEPT !.pc = "put",
                              !.res = _translate_hdul(Payload(UrlOfRow(Row(t.key), DataRelease)))]
               ELSE [t EXCEPT !.pc = "end", !.st = "done"]]
    /\ UNCHANGED <<cache, cache_dir, url_memo, hash_memo, call, order, gathered,
                   ncalls, fetched>>

\* _add_to_cache up to `if cache_file.exists(): return` (lines 199-205)
PoolPutCheck(w) ==
    /\ call.pc = "pool"
    /\ w \in 1..Len(tasks)
    /\ tasks[w].st = "run" /\ tasks[w].pc = "put"
    /\ cache_dir' = TRUE
    /\ LET t == tasks[w]
       IN  tasks' = [tasks EXCEPT ![w] =
               IF WorkerFile(t) \in DOMAIN cache
               THEN [t EXCEPT !.pc = "end", !.st = "done"]
               ELSE [t EXCEPT !.pc = "open"]]
    /\ UNCHANGED <<cache, url_memo, hash_memo, call, order, gathered, ncalls, fetched>>

\* h5py.File(cache_file, 'w') (line 207) creates the file, or truncates the
\* one another worker has created since the check; while another worker holds
\* it open for writing the HDF5 file lock makes the open raise OSError, or,
\* where locking is off or unsupported, the file is truncated under the writer
PoolOpen(w, how) ==
    /\ call.pc = "pool"
    /\ w \in 1..Len(tasks)
    /\ tasks[w].st = "run" /\ tasks[w].pc = "open"
    /\ how \in {"locked", "truncate"}
    /\ LET t == tasks[w]
           held == \E v \in 1..Len(tasks) :
                      v # w /\ Writing(tasks[v]) /\ WorkerFile(tasks[v]) = WorkerFile(t)
       IN  IF held /\ how = "locked"
           THEN /\ tasks' = [tasks EXCEPT ![w] = [t EXCEPT !.pc = "end", !.st = "raised"]]
                /\ cache' = cache
           ELSE /\ tasks' = [tasks EXCEPT ![w] = [t EXCEPT !.pc = "x"]]
                /\ cache' = [f \in DOMAIN cache \cup {WorkerFile(t)} |->
                                IF f = WorkerFile(t) THEN EmptyFile ELSE cache[f]]
    /\ UNCHANGED <<cache_dir, url_memo, hash_memo, call, order, gathered, ncalls, fetched>>

\* one create_dataset (lines 208-210); the file is closed after the third
PoolWrite(w) ==
    /\ call.pc = "pool"
    /\ w \in 1..Len(tasks)
    /\ tasks[w].st = "run" /\ Writing(tasks[w])
    /\ LET t == tasks[w]
           f == WorkerFile(t)
           v == H5Write(t.res)[t.pc]
       IN  /\ cache' = [cache EXCEPT ![f] = WithDataset(cache[f], t.pc, v)]
           /\ tasks' = [tasks EXCEPT ![w] =
                  IF t.pc = "x" THEN [t EXCEPT !.pc = "y"]
                  ELSE IF t.pc = "y" THEN [t EXCEPT !.pc = "dy"]
                  ELSE [t EXCEPT !.pc = "end", !.st = "done"]]
    /\ UNCHANGED <<cache_dir, url_memo, hash_memo, call, order, gathered, ncalls, fetched>>

\* list(...) has collected the workers' results, or the first exception
PoolReturn ==
    /\ call.pc = "pool"
    /\ \A w \in 1..Len(tasks) : tasks[w].st # "run"
    /\ call' = IF \E w \in 1..Len(tasks) : tasks[w].st = "raised"
               THEN [call EXCEPT !.pc = "aborted"]
               ELSE [call EXCEPT !.pc = "done",
                                 !.ret = [w \in 1..Len(tasks) |-> tasks[w].res]]
    /\ UNCHANGED <<cache, cache_dir, url_memo, hash_memo, tasks, order, gathered,
                   ncalls, fetched>>

PoolFinish ==
    /\ call.pc \in {"done", "aborted"}
    /\ call.self = "standard"
    /\ call' = Idle
    /\ tasks' = <<>>
    /\ UNCHANGED <<cache, cache_dir, url_memo, hash_memo, order, gathered, ncalls, fetched>>

CacheLookup == \E w \in 1..NWorkers : PoolCacheLookup(w)
Get == \E w \in 1..NWorkers, net \in NetOutcomes : PoolGet(w, net)
PutCheck == \E w \in 1..NWorkers : PoolPutCheck(w)
Open == \E w \in 1..NWorkers, how \in {"locked", "truncate"} : PoolOpen(w, how)
Write == \E w \in 1..NWorkers : PoolWrite(w)

NextPool ==
    \/ PoolCall
    \/ CacheLookup
    \/ Get
    \/ PutCheck
    \/ Open
    \/ Write
    \/ PoolReturn
    \/ PoolFinish

SpecPool == Init /\ [][NextPool]_vars

\* ------------------------------------- a retriever whose data_release changes
\* data_release is a plain attribute (abstract_retriever.py 21) and the key of
\* both lru_caches is (self, plate, fiber, mjd).  call.data_release, when
\* present, holds the attribute of each retriever; the constructor default
\* until it is assigned.
Releases == {17, 18}

DataReleaseOf(c, self) ==
    IF "data_release" \in DOMAIN c THEN c.data_release[self] ELSE DataRelease

\* retriever.data_release = dr
SetDataRelease ==
    /\ call.pc = "idle"
    /\ \E self \in Selves, dr \in Releases :
          /\ dr # DataReleaseOf(call, self)
          /\ call' = [f \in DOMAIN call \cup {"data_release"} |->
                        IF f = "data_release"
                        THEN [x \in Selves |-> IF x = self THEN dr
                                               ELSE DataReleaseOf(call, x)]
                        ELSE call[f]]
    /\ UNCHANGED <<cache, cache_dir, url_memo, hash_memo, tasks, order, gathered,
                   ncalls, fetched>>

\* _create_cache_hash and _get_url_to_spectrum (lines 81-177) of a retriever
\* whose data_release is dr: url is what _get_url_to_spectrum returns and hash
\* what _create_cache_hash returns, each behind its lru_cache
resolve_with_release(um, hm, self, key, lk, dr) ==
    LET body == IF lk = "row" THEN <<UrlOfRow(Row(key), dr)>> ELSE None
        Url(m) == IF MemoHas(m, <<self, key>>)
                  THEN [v |-> MemoVal(m, <<self, key>>), um |-> MemoHit(m, <<self, key>>)]
                  ELSE [v |-> body, um |-> MemoMiss(m, <<self, key>>, body)]
        Hash(u) == IF u.v = None THEN None ELSE md5(u.v[1])
        AfterHash(h) ==
            LET Out(u) == [url |-> u.v, hash |-> h.v, um |-> u.um, hm |-> h.hm]
            IN  Out(Url(h.um))
        FromMiss(u) == [v |-> Hash(u), um |-> u.um,
                        hm |-> MemoMiss(hm, <<self, key>>, Hash(u))]
    IN  IF MemoHas(hm, <<self, key>>)
        THEN AfterHash([v |-> MemoVal(hm, <<self, key>>), um |-> um,
                        hm |-> MemoHit(hm, <<self, key>>)])
        ELSE AfterHash(FromMiss(Url(um)))

\* one resolution of a key: tasks holds what was returned, and the release
\* the retriever had
ResolveRelease ==
    /\ call.pc = "idle"
    /\ \E self \in Selves, key \in Keys, lk \in {"row", "zero", "exc"} :
          /\ lk \in LookupOutcomes(key)
          /\ LET Resolved(r) ==
                     /\ tasks' = <<[self |-> self, key |-> key,
                                    dr |-> DataReleaseOf(call, self),
                                    url |-> r.url, hash |-> r.hash]>>
                     /\ url_memo' = r.um
                     /\ hash_memo' = r.hm
             IN  Resolved(resolve_with_release(url_memo, hash_memo, self, key, lk,
                                               DataReleaseOf(call, self)))
    /\ UNCHANGED <<cache, cache_dir, call, order, gathered, ncalls, fetched>>

NextRelease == SetDataRelease \/ ResolveRelease

SpecRelease == Init /\ [][NextRelease]_vars

\* ------------------------------- the async executor with damaged cache entries
\* An entry of the cache directory is damaged from outside (a writer that was
\* killed or is still writing, as in the pool above): the file is there
\* without its datasets.
Corrupt ==
    /\ call.pc = "idle"
    /\ \E f \in DOMAIN cache :
          /\ Complete(cache[f])
          /\ cache' = [cache EXCEPT ![f] = EmptyFile]
    /\ UNCHANGED <<cache_dir, url_memo, hash_memo, call, tasks, order, gathered,
                   ncalls, fetched>>

Unreadable(f) == f \in DOMAIN cache /\ ~Complete(cache[f])

CallAsync ==
    /\ call.pc = "idle"
    /\ \E args \in CallArgs, bs \in BatchSizes : CallWith("async", args, bs)

\* fetch_spectrum when the entry _get_from_cache opens can be read
StartReadable ==
    /\ call.pc \in {"pass", "final"}
    /\ \E i \in 1..MaxLen, lk \in {"row", "zero", "exc"} :
          /\ i \in 1..Len(tasks)
          /\ tasks[i].st = "new"
          /\ lk \in LookupOutcomes(tasks[i].key)
          /\ ~Unreadable(CacheFile(_create_cache_hash(url_memo, hash_memo, call.self,
                                                      tasks[i].key, lk).v))
          /\ TaskStart(i, lk)

\* fetch_spectrum when it cannot: h5py.File(cache_file, 'r') or f['x'] raises
\* in _get_from_cache (abstract_retriever.py 190-191), which
\* fetch_spectrum calls before its try (asynchronous.py 49): the coroutine
\* ends with the exception
TaskStartRaises(i, lk) ==
    /\ call.pc \in {"pass", "final"}
    /\ gathered = None
    /\ i \in 1..Len(tasks)
    /\ tasks[i].st = "new"
    /\ LET Raised(h) ==
               /\ Unreadable(CacheFile(h.v))
               /\ tasks' = [tasks EXCEPT ![i] =
                               [@ EXCEPT !.st = "raised", !.lookups = h.n]]
               /\ url_memo' = h.um
               /\ hash_memo' = h.hm
       IN  Raised(_create_cache_hash(url_memo, hash_memo, call.self, tasks[i].key, lk))
    /\ UNCHANGED <<cache, cache_dir, call, order, gathered, ncalls, fetched>>

StartRaises ==
    \E i \in 1..MaxLen, lk \in {"row", "zero", "exc"} :
        /\ i \in 1..Len(tasks)
        /\ lk \in LookupOutcomes(tasks[i].key)
        /\ TaskStartRaises(i, lk)

\* gather(*tasks) without return_exceptions (asynchronous.py 112-116): the
\* first exception of a task leaves gather, get_spectrum, asyncio.run, which
\* cancels the tasks still running, and __call__
GatherRaises ==
    /\ call.pc \in {"pass", "final"}
    /\ gathered = None
    /\ \E i \in 1..Len(tasks) : tasks[i].st = "raised"
    /\ call' = [call EXCEPT !.pc = "aborted"]
    /\ UNCHANGED <<cache, cache_dir, url_memo, hash_memo, tasks, order, gathered,
                   ncalls, fetched>>

NextFault ==
    \/ CallAsync
    \/ Corrupt
    \/ StartReadable
    \/ StartRaises
    \/ Settle
    \/ Gather
    \/ GatherRaises
    \/ Continue
    \/ Finish

SpecFault == Init /\ [][NextFault]_vars

\* ------------------------------- the two executors' fetch_spectrum side by side
\* what a caller of fetch_spectrum observes: the value returned or the
\* exception, and the cache directory afterwards
Observed(r) == [st |-> r.st, res |-> r.res, files |-> r.files]

\* Both fetch_spectrum methods are applied to the same key in the same state
\* of the cache and of the memos, with the same behaviour of the metadata
\* lookup (lk), of the GET and of the decoding (net); tasks holds what the
\* async and the blocking method give, and the program goes on from the state
\* either of them leaves, for MaxCalls + 1 fetches.
FetchBoth ==
    /\ call.pc = "idle"
    /\ ncalls < MaxCalls + 1
    /\ ncalls' = ncalls + 1
    /\ \E self \in Selves, key \in Keys, lk \in {"row", "zero", "exc"},
          net \in NetOutcomes, pick \in 1..2 :
            /\ lk \in LookupOutcomes(key)
            /\ LET Both(a, b) ==
                       /\ tasks' = <<Observed(a), Observed(b)>>
                       /\ cache' = <<a, b>>[pick].files
                       /\ cache_dir' = <<a, b>>[pick].dir
                       /\ url_memo' = <<a, b>>[pick].um
                       /\ hash_memo' = <<a, b>>[pick].hm
               IN  Both(async_fetch_spectrum(cache, cache_dir, url_memo, hash_memo,
                                             self, key, lk, net),
                        std_fetch_spectrum(cache, cache_dir, url_memo, hash_memo,
                                           self, key, lk, lk, net))
    /\ UNCHANGED <<call, order, gathered, fetched>>

NextExec == FetchBoth

SpecExec == Init /\ [][NextExec]_vars

\* ==================================================================== claims
\* the keys a call was given, in input order
InputKeys == Zip3(_format_args_into_iterables(call.input))

\* the spectrum the archive holds for a URL, as fetch_spectrum returns it
SpectrumAt(url) == _translate_hdul(Payload(url))

AsyncReturned == call.pc = "done" /\ call.self = "async"

\* C1: for every N and every batch size, AsyncSDSSRetriever.__call__ returns
\* a list of exactly N entries whose i-th entry is the result of the fetch
\* for the i-th input key.
C1_ReturnsOneEntryPerKey ==
    AsyncReturned =>
        /\ Len(call.ret) = Len(InputKeys)
        /\ \A i \in 1..Len(InputKeys) :
              /\ i <= Len(tasks)
              /\ tasks[i].key = InputKeys[i]
              /\ call.ret[i] = tasks[i].res

\* what an unbatched call returns on the deterministic layer, key by key
DetResult(key) ==
    IF InCatalog(key) /\ DetNet(UrlOfRow(Row(key), DataRelease)) = "ok"
    THEN SpectrumAt(UrlOfRow(Row(key), DataRelease))
    ELSE None

UnbatchedResult == [i \in 1..Len(InputKeys) |-> DetResult(InputKeys[i])]

\* C2: on a deterministic fetch layer, a call with batch_size = 2 returns the
\* same list (content and order) as the unbatched call on the same keys.
C2_BatchedEqualsUnbatched ==
    (AsyncReturned /\ call.batch_size = <<2>>) => call.ret = UnbatchedResult

\* on that layer the unbatched call does return UnbatchedResult
UnbatchedReference ==
    (AsyncReturned /\ call.batch_size = None) => call.ret = UnbatchedResult

\* C3: in one pass of get_spectrum the returned list is ordered by input
\* position whatever the completion order: entry i is the outcome of the task
\* created for the i-th key of the pass.
C3_GatherIsPositional ==
    (call.self = "async" /\ gathered # None) =>
        LET keys == Zip3(_format_args_into_iterables(call.args))
        IN  /\ Len(gathered[1]) = Len(keys)
            /\ Len(tasks) = Len(keys)
            /\ \A i \in 1..Len(keys) :
                  /\ tasks[i].key = keys[i]
                  /\ gathered[1][i] = tasks[i].res

\* a pass whose first finished task is not the first key, with different results
C3_Witness ==
    /\ call.self = "async"
    /\ gathered # None
    /\ Len(order) >= 2
    /\ order[1] # 1
    /\ tasks[1].res # tasks[order[1]].res

\* C4: when the fetch of one key of a pass fails (timeout, non-200, decode
\* error), the pass still returns a full-length list with None at exactly
\* that key's index, and every sibling whose fetch succeeded has its own
\* spectrum at its own index.
C4_FailureIsPerKey ==
    (call.self = "async" /\ gathered # None) =>
        /\ Len(gathered[1]) = Len(tasks)
        /\ \A i \in 1..Len(tasks) :
              /\ tasks[i].net = "fail" => gathered[1][i] = None
              /\ tasks[i].net = "ok" => gathered[1][i] = SpectrumAt(tasks[i].url[1])

\* a pass with a failed fetch before a successful sibling
C4_Witness ==
    /\ call.self = "async"
    /\ gathered # None
    /\ \E i, j \in 1..Len(tasks) :
          /\ i < j
          /\ tasks[i].net = "fail"
          /\ tasks[j].net = "ok"
          /\ gathered[1][j] # None

\* C5: a key whose metadata lookup returned zero rows never causes a spectrum
\* GET, and its result is None.
C5_MissNeverFetches ==
    \A i \in 1..Len(tasks) :
        (tasks[i].st = "done" /\ tasks[i].zero) =>
            /\ tasks[i].gets = 0
            /\ tasks[i].res = None

\* the part of C5 that does hold: no GET is issued for such a key
C5_MissIssuesNoGet ==
    \A i \in 1..Len(tasks) : tasks[i].zero => tasks[i].gets = 0

\* the spectrum of a catalogued key
SpectrumOf(key) == SpectrumAt(UrlOfRow(Row(key), DataRelease))

Components ==
    IF Len(call.input) = 3 THEN call.input
    ELSE IF call.input[1].t = "dict" THEN call.input[1].v
    ELSE <<SeqArg(Column(call.input[1].v, 1)), SeqArg(Column(call.input[1].v, 2)),
           SeqArg(Column(call.input[1].v, 3))>>

HasComponents ==
    \/ Len(call.input) = 3
    \/ Len(call.input) = 1 /\ call.input[1].t \in {"dict", "frame"}

LenOf(a) == IF a.t = "int" THEN 1 ELSE Len(a.v)

\* the i-th value of an input, a scalar or one-element input standing for all
ValueAt(a, i) == IF a.t = "int" THEN a.v ELSE IF Len(a.v) = 1 THEN a.v[1] ELSE a.v[i]

LongestInput == Max2(LenOf(Components[1]), Max2(LenOf(Components[2]), LenOf(Components[3])))

\* scalar triple, equal lengths, or a mix of length 1 and length N
GoodShape == \A j \in 1..3 : LenOf(Components[j]) \in {1, LongestInput}

\* two inputs of different lengths, both greater than 1
LengthMismatch ==
    \E j, k \in 1..3 :
        /\ LenOf(Components[j]) > 1
        /\ LenOf(Components[k]) > 1
        /\ LenOf(Components[j]) # LenOf(Components[k])

\* C7: _format_args_into_iterables yields N and three sequences giving exactly
\* N aligned (plate, fiber, mjd) triples, length-1 inputs repeated, for every
\* good shape, and raises when two inputs have different lengths above 1.
C7_NormalisesOrRaises ==
    (call.pc # "idle" /\ HasComponents) =>
        /\ GoodShape =>
              /\ call.loop.err = ""
              /\ call.loop.n = LongestInput
              /\ Zip3(call.loop) =
                    [i \in 1..LongestInput |->
                        <<ValueAt(Components[1], i), ValueAt(Components[2], i),
                          ValueAt(Components[3], i)>>]
        /\ LengthMismatch => call.loop.err = "AssertionError"

\* a list of MaxLen plates with a scalar and a one-element list broadcast to it
C7_Witness ==
    /\ call.pc # "idle"
    /\ Len(call.input) = 3
    /\ call.input[1].t = "seq" /\ Len(call.input[1].v) = MaxLen
    /\ call.input[2].t = "int"
    /\ call.input[3].t = "seq" /\ Len(call.input[3].v) = 1
    /\ call.loop.n = MaxLen

\* the three inputs do not fit together: some length is neither 1 nor the longest
Inconsistent(args) ==
    LET n == Max2(LenOf(args[1]), Max2(LenOf(args[2]), LenOf(args[3])))
    IN  \E j \in 1..3 : LenOf(args[j]) \notin {1, n}

\* C8: a call whose inputs have inconsistent lengths raises at once, before
\* any metadata lookup, GET or cache write: it creates no task and leaves the
\* cache and both memos as they were.
C8_ShapeErrorAbortsFirst ==
    [][ /\ (call.pc = "idle" /\ call'.pc # "idle" /\ Inconsistent(call'.input)) =>
              /\ call'.pc = "raised"
              /\ tasks' = <<>>
              /\ UNCHANGED <<cache, cache_dir, url_memo, hash_memo>>
        /\ call.pc = "raised" =>
              UNCHANGED <<cache, cache_dir, url_memo, hash_memo, tasks>> ]_vars

\* a rejected call on a retriever whose cache and memos are populated
C8_Witness ==
    /\ call.pc = "raised"
    /\ Inconsistent(call.input)
    /\ DOMAIN cache # {}
    /\ Len(url_memo) > 0

\* C9: a put for a hash whose entry exists leaves the stored content as it
\* is, whatever data is passed: an entry keeps the data of its first put.
C9_PutNeverClobbers ==
    [][ \A f \in DOMAIN cache : f \in DOMAIN cache' => cache'[f] = cache[f] ]_vars

\* a fetched spectrum whose put met an entry holding other data
C9_Witness ==
    \E i \in 1..Len(tasks) :
        /\ tasks[i].net = "ok"
        /\ tasks[i].wrote = None
        /\ MemoHas(hash_memo, <<call.self, tasks[i].key>>)
        /\ CacheFile(MemoVal(hash_memo, <<call.self, tasks[i].key>>)) \in DOMAIN cache
        /\ H5Read(cache[CacheFile(MemoVal(hash_memo, <<call.self, tasks[i].key>>))])
              # tasks[i].res

\* every entry is named by the hash of a URL and holds that URL's spectrum
EntriesComeFromTheirUrl ==
    \A f \in DOMAIN cache :
        \E key \in Keys :
            /\ InCatalog(key)
            /\ f = CacheFile(md5(UrlOfRow(Row(key), DataRelease)))
            /\ cache[f] = H5Write(SpectrumOf(key))

\* an entry disappears only in a step of _remove_from_cache or _clear_cache
RemovedOnlyByMaintenance ==
    (\E f \in DOMAIN cache : f \notin DOMAIN cache') =>
        (call.pc = "idle" /\ call'.pc = "idle" /\ ncalls' = ncalls + 1)

\* C10: in every reachable state each cache entry was created by a successful
\* fetch and decode of the URL whose hash names it; its content never changes
\* afterwards, and entries disappear only through remove / clear.
C10_CacheInvariant ==
    /\ []EntriesComeFromTheirUrl
    /\ [][ /\ \A f \in DOMAIN cache \cap DOMAIN cache' : cache'[f] = cache[f]
           /\ RemovedOnlyByMaintenance ]_vars

\* the parts of C10 that hold: content is frozen, removal is explicit
C10_FrozenAndExplicitlyRemoved ==
    [][ /\ \A f \in DOMAIN cache \cap DOMAIN cache' : cache'[f] = cache[f]
        /\ RemovedOnlyByMaintenance ]_vars

\* the tasks inside the section guarded by "async with self.semaphore"
InLimiter == {i \in 1..Len(tasks) : tasks[i].st = "fetching"}

\* C11: at every moment of an async pass, at most max_concurrent fetch tasks
\* are inside the limiter-guarded section; a further task waits for a slot.
C11_LimiterBoundsSection ==
    call.self = "async" => Cardinality(InLimiter) <= MaxConcurrent

\* the call is split into chunks: N > B
Batched_N_gt_B ==
    /\ call.self = "async"
    /\ call.pc \in {"pass", "final"}
    /\ call.batch_size # None
    /\ Len(InputKeys) > call.batch_size[1]

\* the keys of the c-th contiguous chunk of at most b input keys
ChunkKeys(c, b) ==
    SubSeq(InputKeys, (c - 1) * b + 1,
           IF c * b <= Len(InputKeys) THEN c * b ELSE Len(InputKeys))

\* some position holds a task that did not exist before this step
TasksCreated ==
    \E i \in 1..Len(tasks') :
        tasks'[i].st = "new" /\ (i > Len(tasks) \/ tasks[i].st # "new")

\* C12: when N > B the keys are split into contiguous chunks of at most B
\* keys in input order, and no fetch task of the next chunk is created before
\* every task of the current chunk has a result, so at most B tasks are
\* outstanding at any moment.
C12_ChunksRunOneAfterAnother ==
    /\ [](Batched_N_gt_B =>
            /\ Len(tasks) <= call.batch_size[1]
            /\ call.pc = "pass" =>
                  [i \in 1..Len(tasks) |-> tasks[i].key]
                      = ChunkKeys(call.ci, call.batch_size[1]))
    /\ [][(call.self = "async" /\ TasksCreated) =>
              \A j \in 1..Len(tasks) : tasks[j].st = "done"]_vars

\* the second chunk's tasks exist, not yet run, after the first chunk has
\* delivered a fetched spectrum and a failure
C12_Witness ==
    /\ Batched_N_gt_B
    /\ call.pc = "pass"
    /\ call.ci = 2
    /\ Len(call.out) = call.batch_size[1]
    /\ call.out[1] # None
    /\ call.out[2] = None
    /\ \E i \in 1..Len(tasks) : tasks[i].st = "new"

\* C13: for the same key and the same behaviour of metadata lookup, HTTP and
\* decode, SDSSRetriever.fetch_spectrum returns the same Optional result as
\* AsyncSDSSRetriever.fetch_spectrum and leaves the cache in the same state.
C13_ExecutorsAgree ==
    tasks # <<>> =>
        /\ tasks[2].st = tasks[1].st
        /\ tasks[2].res = tasks[1].res
        /\ tasks[2].files = tasks[1].files

\* C14: a cache I/O error raised while a fetched spectrum is written to the
\* cache leaves fetch_spectrum as an exception and aborts the call; it is not
\* turned into a None result for the key.
C14_CacheIOErrorPropagates ==
    \A i \in 1..Len(tasks) :
        tasks[i].net = "ioerr" =>
            /\ tasks[i].st = "raised"
            /\ call.pc = "aborted"

\* the part of C14 that holds: the blocking executor propagates the error
C14_BlockingPropagates ==
    \A i \in 1..Len(tasks) :
        (call.self = "standard" /\ tasks[i].net = "ioerr") =>
            /\ tasks[i].st = "raised"
            /\ call.pc = "aborted"

\* the fetch of task i issued its GET and is over
GetIsOver(i) == tasks[i].gets = 1 /\ tasks[i].st \notin {"new", "fetching"}

\* C15: for a key with a URL and no cache entry, each of non-200, timeout,
\* connection error and decode exception makes fetch_spectrum return None and
\* create no entry; an HTTP 200 with a decodable payload returns the data and
\* creates the key's entry.
C15_OnlySuccessStores ==
    \A i \in 1..Len(tasks) :
        GetIsOver(i) =>
            /\ tasks[i].net = "fail" =>
                  /\ tasks[i].st = "done"
                  /\ tasks[i].res = None
                  /\ tasks[i].wrote = None
            /\ tasks[i].net = "ok" =>
                  /\ tasks[i].st = "done"
                  /\ tasks[i].res = SpectrumOf(tasks[i].key)
                  /\ KeyFile(tasks[i].key) \in DOMAIN cache

\* the part of C15 that holds: in the async executor every failed GET or
\* decode gives None and writes nothing
C15_AsyncFailuresGiveNone ==
    \A i \in 1..Len(tasks) :
        (call.self = "async" /\ GetIsOver(i) /\ tasks[i].net = "fail") =>
            /\ tasks[i].st = "done"
            /\ tasks[i].res = None
            /\ tasks[i].wrote = None

\* C16: the URL carries the legacy run identifier "26" whenever
\* dataRelease <= 7, whatever the metadata row carries, and the row's run
\* identifier whenever dataRelease > 7.
C16_LegacyRunBelowEight ==
    \A i \in 1..Len(tasks) :
        /\ tasks[i].dr <= 7 => tasks[i].url.run2d = "26"
        /\ tasks[i].dr > 7 => tasks[i].url.run2d = tasks[i].row.run2d

\* what does hold: _get_url_to_spectrum always takes the row's run identifier,
\* and the code of _sdss_retriever.py never does
C16_RetrieverUsesRowLegacyHardCodes ==
    \A i \in 1..Len(tasks) :
        /\ tasks[i].impl = "retriever" => tasks[i].url.run2d = tasks[i].row.run2d
        /\ tasks[i].impl = "legacy" =>
              tasks[i].url.run2d = IF tasks[i].dr <= 7 THEN "26" ELSE "v5_13_2"

\* the legacy set of run identifiers, and the identifiers of Run2ds whose
\* leading numeric component exceeds 5
LegacyRun2ds == {"26", "103", "104"}
MajorAboveFive == {"v6_0_4"}

MemoizedNone(um, self, key) ==
    MemoHas(um, <<self, key>>) /\ MemoVal(um, <<self, key>>) = None

\* task i of the async pass runs its resolution in this step
Resolves(i) ==
    /\ call.self = "async"
    /\ i \in 1..Len(tasks)
    /\ Len(tasks') = Len(tasks)
    /\ tasks[i].st = "new"
    /\ tasks'[i].st # "new"

\* in every reachable state of the memo: a zero-row answer resolves to None,
\* leaves None in the memo, and while None is in the memo a resolution makes
\* no lookup whatever the metadata service would answer
ZeroRowsMemoized ==
    \A self \in Selves, key \in Keys :
        /\ MemoizedNone(url_memo, self, key) =>
              \A lk \in {"row", "zero", "exc"} :
                  /\ _get_url_to_spectrum(url_memo, self, key, lk).n = 0
                  /\ _get_url_to_spectrum(url_memo, self, key, lk).v = None
        /\ (~MemoHas(url_memo, <<self, key>>) /\ "zero" \in LookupOutcomes(key)) =>
              /\ _get_url_to_spectrum(url_memo, self, key, "zero").v = None
              /\ MemoizedNone(_get_url_to_spectrum(url_memo, self, key, "zero").um, self, key)

\* C18: a metadata lookup that returns zero rows makes the resolution return
\* None without raising and the None is memoized; a resolution of a key whose
\* None is still in the memo does not call the metadata lookup.
C18_ZeroRowsGiveMemoizedNone ==
    /\ []ZeroRowsMemoized
    /\ [][\A i \in 1..Len(tasks) :
            Resolves(i) =>
                /\ tasks'[i].zero =>
                      /\ tasks'[i].st = "done"
                      /\ tasks'[i].url = None
                      /\ tasks'[i].gets = 0
                      /\ MemoizedNone(url_memo', "async", tasks[i].key)
                /\ MemoizedNone(url_memo, "async", tasks[i].key) =>
                      /\ tasks'[i].lookups = 0
                      /\ tasks'[i].st = "done"
                      /\ tasks'[i].url = None]_vars

\* two tasks of one pass have the same uncatalogued key: the first asked the
\* metadata service and got zero rows, the second asked nothing
C18_Witness ==
    /\ call.self = "async"
    /\ \E i, j \in 1..Len(tasks) :
          /\ i # j
          /\ tasks[i].key = tasks[j].key
          /\ tasks[i].zero /\ tasks[i].lookups = 1 /\ tasks[i].res = None
          /\ tasks[j].st = "done" /\ tasks[j].lookups = 0 /\ tasks[j].res = None
          /\ MemoizedNone(url_memo, "async", tasks[j].key)

\* a memo holds at most LruMaxSize entries, one per key
BoundedMemo(memo) ==
    /\ Len(memo) <= LruMaxSize
    /\ \A i, j \in 1..Len(memo) : memo[i].k = memo[j].k => i = j

\* the memo after key k was used: k is the most recent entry, the others keep
\* their order, and when a new key does not fit, the entry dropped is the
\* first one, the least recently used
UsedIn(memo, memo2, k) ==
    /\ memo2 # <<>>
    /\ memo2[Len(memo2)].k = k
    /\ IF MemoHas(memo, k)
       THEN /\ memo2[Len(memo2)].v = MemoVal(memo, k)
            /\ SubSeq(memo2, 1, Len(memo2) - 1) = RemoveAt(memo, MemoIdx(memo, k))
       ELSE SubSeq(memo2, 1, Len(memo2) - 1) =
                IF Len(memo) = LruMaxSize THEN Tail(memo) ELSE memo

\* C19: the resolution memo is a bounded LRU: it never holds more than
\* LruMaxSize entries (128 in the code), using a key makes it the most recent
\* entry, a new key in a full memo evicts the least recently used entry, and a
\* key that is no longer in the memo is looked up in the catalogue again.
C19_BoundedLru ==
    /\ [](BoundedMemo(url_memo) /\ BoundedMemo(hash_memo))
    /\ [][\A i \in 1..Len(tasks) :
            Resolves(i) =>
                LET k == <<"async", tasks[i].key>>
                IN  \/ /\ url_memo' = url_memo
                       /\ MemoHas(hash_memo, k)
                       /\ tasks'[i].res # None
                       /\ tasks'[i].gets = 0
                       /\ tasks'[i].lookups = 0
                    \/ /\ UsedIn(url_memo, url_memo', k)
                       /\ tasks'[i].lookups = IF MemoHas(url_memo, k) THEN 0 ELSE 1]_vars

\* a key this retriever fetched in an earlier call has been evicted from a
\* full memo and its resolution asks the catalogue again
C19_Witness ==
    /\ call.self = "async"
    /\ Len(url_memo) = LruMaxSize
    /\ \E i \in 1..Len(tasks) :
          /\ tasks[i].pre
          /\ tasks[i].st # "new"
          /\ tasks[i].lookups = 1
          /\ url_memo[Len(url_memo)].k = <<"async", tasks[i].key>>

\* the state of one run of fetch_spectrum in the words of the per-key state
\* machine; Resolving, CacheHit and Miss are passed through inside the step
\* that starts the task
TaskState(t) ==
    IF t.st = "new" THEN "Unresolved"
    ELSE IF t.st = "fetching" THEN "Fetching"
    ELSE IF t.st = "done" THEN (IF t.res = None THEN "Failed" ELSE "Succeeded")
    ELSE t.st

\* input positions before the current pass's chunk
FirstOfPass(c) == IF c.chunks = <<>> THEN 0 ELSE (c.ci - 1) * c.batch_size[1]

\* the state of the key at input position p of the async call c whose current
\* pass has the tasks ts: positions of earlier chunks have their result in
\* out, positions of later chunks have not been started
KeyStateAt(c, ts, p) ==
    IF p > FirstOfPass(c) /\ p <= FirstOfPass(c) + Len(ts)
    THEN TaskState(ts[p - FirstOfPass(c)])
    ELSE IF p <= FirstOfPass(c)
    THEN (IF c.out[p] = None THEN "Failed" ELSE "Succeeded")
    ELSE "Unresolved"

AllowedTransition(a, b) ==
    \/ a = b
    \/ a = "Unresolved" /\ b \in {"Fetching", "Succeeded", "Failed"}
    \/ a = "Fetching" /\ b \in {"Succeeded", "Failed"}

InAsyncCall ==
    /\ call.self = "async"
    /\ call.pc \in {"pass", "final"}
    /\ call'.pc \in {"pass", "final", "done"}

\* C20: within a call every key moves only along Unresolved -> (Fetching ->)
\* Succeeded or Failed, and Succeeded and Failed are terminal.
C20_KeyStateMachine ==
    [][InAsyncCall =>
          \A p \in 1..call.loop.n :
              AllowedTransition(KeyStateAt(call, tasks, p), KeyStateAt(call', tasks', p))]_vars

\* what holds: each single run of fetch_spectrum follows the state machine
C20_TaskStateMachine ==
    [][(InAsyncCall /\ Len(tasks') = Len(tasks) /\ ~(gathered # None /\ gathered' = None)) =>
          \A i \in 1..Len(tasks) :
              /\ AllowedTransition(TaskState(tasks[i]), TaskState(tasks'[i]))
              /\ tasks[i].st = "done" => tasks'[i] = tasks[i]]_vars

\* u = <<numerator, denominator>> is v ** -0.5 for a positive v
IsInvSqrt(u, v) == u # NaN /\ u[2] # 0 /\ u[1] * u[1] * v = u[2] * u[2]

\* C21: decoding yields three parallel sequences of one length N; for every
\* sample the uncertainty is ivar^-0.5 when ivar > 0 and NaN when ivar <= 0,
\* and a non-positive ivar never makes the decoding fail.
C21_UncertaintyFromIvar ==
    \A t \in 1..Len(tasks) :
        LET data == tasks[t].data
            res == tasks[t].res
        IN  /\ Len(res) = 3
            /\ Len(res[1]) = Len(data.ivar)
            /\ Len(res[2]) = Len(data.ivar)
            /\ Len(res[3]) = Len(data.ivar)
            /\ \A i \in 1..Len(data.ivar) :
                  /\ res[1][i] = Pow10(data.loglam[i])
                  /\ res[2][i] = data.flux[i]
                  /\ data.ivar[i] > 0 => IsInvSqrt(res[3][i], data.ivar[i])
                  /\ data.ivar[i] <= 0 => res[3][i] = NaN

\* the example of the claim: ivar = [4, 0] gives uncertainty [1/2, NaN]
C21_Witness ==
    \E t \in 1..Len(tasks) :
        /\ tasks[t].data.ivar = <<4, 0>>
        /\ tasks[t].res[3] = <<<<1, 2>>, NaN>>

C22_NameFromUrlOrNone ==
    \A i \in 1..Len(tasks) :
        (tasks[i].url # None /\ tasks[i].wrote # None) =>
            tasks[i].wrote \in {CacheFile(md5(tasks[i].url[1])), CacheFile(None)}

\* what holds as well: every hash _create_cache_hash memoizes, for any
\* retriever, is None or the md5 of the key's URL
C22_HashIsMd5OfUrl ==
    \A i \in 1..Len(hash_memo) :
        hash_memo[i].v \in {None, md5(UrlOfRow(Row(hash_memo[i].k[2]), DataRelease))}

\* when every worker has finished, the entry of each key that was decoded
\* holds the complete data of that decode
FinalEntriesComplete ==
    (tasks # <<>> /\ \A w \in 1..Len(tasks) : tasks[w].st # "run") =>
        \A w \in 1..Len(tasks) :
            (tasks[w].st = "done" /\ tasks[w].res # None) =>
                /\ KeyFile(tasks[w].key) \in DOMAIN cache
                /\ Complete(cache[KeyFile(tasks[w].key)])
                /\ H5Read(cache[KeyFile(tasks[w].key)]) = tasks[w].res

\* C23: with several pool workers on the same hash and no locking, under
\* every interleaving no reader observes a partially written entry, no fetch
\* raises because of the race, and the entry finally holds the data of a
\* complete decode.
C23_NoLockingNeeded ==
    /\ \A w \in 1..Len(tasks) : tasks[w].st # "raised"
    /\ FinalEntriesComplete

\* the fetch of task t issued its GET and ended in None
FailedAfterGet(t) == t.st = "done" /\ t.gets = 1 /\ t.res = None

\* the tasks of the next state are for the same input positions
SamePositions == FirstOfPass(call') = FirstOfPass(call) /\ Len(tasks') = Len(tasks)

\* a fetch whose GET or decoding fails leaves the cache as it was
FailureRecordsNothing ==
    \A i \in 1..Len(tasks) :
        (SamePositions /\ tasks[i].st = "fetching" /\ tasks'[i].net = "fail") =>
            /\ cache' = cache
            /\ cache_dir' = cache_dir
            /\ tasks'[i].wrote = None

\* C24: there is no automatic retry: one run of fetch_spectrum issues at most
\* one GET, a failed fetch records nothing, and within a call a key that
\* Failed after its GET is not fetched again.
C24_NoAutomaticRetry ==
    /\ [](\A i \in 1..Len(tasks) : tasks[i].gets <= 1)
    /\ [][InAsyncCall => FailureRecordsNothing]_vars
    /\ [][(InAsyncCall /\ SamePositions) =>
              \A i \in 1..Len(tasks) : FailedAfterGet(tasks[i]) => tasks'[i] = tasks[i]]_vars

\* what holds: one GET per run of fetch_spectrum, and nothing recorded by a
\* failed one
C24_OneGetPerRun ==
    /\ [](\A i \in 1..Len(tasks) : tasks[i].gets <= 1)
    /\ [][InAsyncCall => FailureRecordsNothing]_vars

\* task i ends in this step
Ends(i) ==
    /\ i \in 1..Len(tasks) /\ Len(tasks') = Len(tasks)
    /\ tasks[i].st \in {"new", "fetching"}
    /\ tasks'[i].st \in {"done", "raised"}

\* the directory comes into being only in a step that ran _add_to_cache
CreatedByAddToCache ==
    cache_dir' # cache_dir =>
        /\ ~cache_dir /\ cache_dir'
        /\ \E i \in 1..Len(tasks) :
              Ends(i) /\ tasks'[i].gets = 1 /\ tasks'[i].net \in {"ok", "ioerr"}

\* C25: the cache directory is created lazily on the first write only: cache
\* reads and fetches that end in null never create it, and _add_to_cache
\* creates it, when missing, before the entry is written.
C25_DirectoryCreatedOnFirstWrite ==
    /\ [](DOMAIN cache # {} => cache_dir)
    /\ [][CreatedByAddToCache]_vars
    /\ [][\A i \in 1..Len(tasks) :
              (Ends(i) /\ tasks'[i].st = "done" /\ tasks'[i].res = None) =>
                  cache_dir' = cache_dir]_vars

\* what holds: only _add_to_cache creates the directory, and it does so
\* before any entry exists
C25_OnlyAddToCacheCreates ==
    /\ [](DOMAIN cache # {} => cache_dir)
    /\ [][CreatedByAddToCache]_vars

\* C26: in one AsyncSDSSRetriever.__call__ each input position is processed
\* by fetch_spectrum exactly once: the tasks of a new pass are for positions
\* after those of the pass before, never for positions that already had a task.
C26_EachPositionOnce ==
    [][(InAsyncCall /\ TasksCreated) =>
          FirstOfPass(call') >= FirstOfPass(call) + Len(tasks)]_vars

\* what holds: a call with N <= B (or without batch_size) has a single pass
C26_UnbatchedSinglePass ==
    [][(InAsyncCall /\ call.chunks = <<>>) => ~TasksCreated]_vars

\* C27: the URL a resolution returns, and the hash that names the cache
\* entry, are those of the retriever's current data release, also after
\* data_release has been changed.
C27_MemoFollowsDataRelease ==
    \A i \in 1..Len(tasks) :
        /\ tasks[i].url # None =>
              tasks[i].url[1] = UrlOfRow(Row(tasks[i].key), tasks[i].dr)
        /\ tasks[i].hash # None =>
              tasks[i].hash = md5(UrlOfRow(Row(tasks[i].key), tasks[i].dr))

\* what holds: the URL returned is the one of some data release the retriever
\* has had
C27_UrlOfSomeRelease ==
    \A i \in 1..Len(tasks) :
        tasks[i].url # None =>
            \E dr \in Releases : tasks[i].url[1] = UrlOfRow(Row(tasks[i].key), dr)

\* in every reachable state of the memo: a lookup that raises resolves to
\* None without raising, leaves the memo exactly as a zero-row answer would,
\* and the None is in the memo afterwards
ErrorsMemoizedLikeZeroRows ==
    \A self \in Selves, key \in Keys :
        ~MemoHas(url_memo, <<self, key>>) =>
            /\ _get_url_to_spectrum(url_memo, self, key, "exc").v = None
            /\ MemoizedNone(_get_url_to_spectrum(url_memo, self, key, "exc").um, self, key)
            /\ _get_url_to_spectrum(url_memo, self, key, "exc") =
                   _get_url_to_spectrum(url_memo, self, key, "zero")

\* C28: a metadata lookup that raises makes the resolution return None and
\* memoizes it like a zero-row answer: while the None is in the memo, later
\* resolutions of the key return None without a metadata lookup.
C28_LookupErrorMemoized ==
    /\ []ErrorsMemoizedLikeZeroRows
    /\ [][\A i \in 1..Len(tasks) :
            (Resolves(i) /\ InCatalog(tasks[i].key)) =>
                /\ (tasks'[i].lookups = 1 /\ tasks'[i].url = None /\ tasks'[i].res = None) =>
                      /\ tasks'[i].st = "done"
                      /\ tasks'[i].gets = 0
                      /\ MemoizedNone(url_memo', "async", tasks[i].key)
                /\ MemoizedNone(url_memo, "async", tasks[i].key) =>
                      /\ tasks'[i].lookups = 0
                      /\ tasks'[i].st = "done"
                      /\ tasks'[i].url = None
                      /\ tasks'[i].gets = 0]_vars

\* two tasks of one pass have the same catalogued key: the lookup of the
\* first raised, the second made no lookup and returned None
C28_Witness ==
    /\ call.self = "async"
    /\ \E i, j \in 1..Len(tasks) :
          /\ i # j
          /\ tasks[i].key = tasks[j].key
          /\ InCatalog(tasks[i].key)
          /\ tasks[i].st = "done" /\ tasks[i].lookups = 1 /\ tasks[i].url = None
          /\ tasks[i].res = None
          /\ tasks[j].st = "done" /\ tasks[j].lookups = 0 /\ tasks[j].res = None
          /\ MemoizedNone(url_memo, "async", tasks[j].key)

\* C29: no cache entry exists under the name derived from a None hash, so a
\* key without a URL never gets data from the cache: whatever a fetch returns
\* is the spectrum of its own key.
C29_NoEntryForNoneHash ==
    /\ CacheFile(None) \notin DOMAIN cache
    /\ \A i \in 1..Len(tasks) :
          tasks[i].res # None =>
              /\ InCatalog(tasks[i].key)
              /\ tasks[i].res = SpectrumOf(tasks[i].key)

\* a key that is not in the catalogue has been given the spectrum of
\* another key
C29_ForeignData ==
    \E i \in 1..Len(tasks) :
        /\ ~InCatalog(tasks[i].key)
        /\ tasks[i].st = "done"
        /\ tasks[i].res # None

SomeTaskRaised == \E i \in 1..Len(tasks) : tasks[i].st = "raised"

====
